---------------------------- MODULE Spec2Model ----------------------------
(***************************************************************************)
(* Model of get_calendar_details.py: a three step script that loads        *)
(* credentials.json, authenticates through GoogleOAuthManager with the     *)
(* calendar scope, and writes the returned user_info to user_token.json.   *)
(*                                                                         *)
(* Every invocation of the script is a process p \in Procs.  The two files *)
(* are shared by all invocations.  Python values and JSON texts are both   *)
(* sequences of tokens <<kind, text>>, so that json.load and json.dump are *)
(* conversions between two different token languages and a file can hold   *)
(* a truncated or an interleaved text.                                     *)
(***************************************************************************)
EXTENDS Naturals, Integers, Sequences, FiniteSets, TLC

\* Number of invocations of the script (they start in the order 1, 2, ...).
NumRuns == 2
\* Size, in tokens, of the write buffer of a file opened by open(): a flush
\* writes at most this many tokens (io.DEFAULT_BUFFER_SIZE, in bytes, in CPython).
BufSize == 4

Procs == 1..NumRuns

VARIABLES
  credentials_json,  \* the file credentials.json: [exists, data]
  user_token_json,   \* the file user_token.json: [exists, data]
  pc,                \* pc[p]: the statement invocation p is at
  client_secrets,    \* client_secrets[p]: the Python value json.load returned
  oauth_manager,     \* oauth_manager[p]: the manager object built at lines 9-11
  ctor_args,         \* ctor_args[p]: names of the keyword arguments given to the constructor
  scopes_arg,        \* scopes_arg[p]: the scopes list given to authenticate_via_local_server
  user_info,         \* user_info[p]: the Python value the authenticate call returned
  f,                 \* f[p]: the file object of line 19: [open, pos, buf, ok]
  exit_status,       \* exit_status[p]: -1 while running, then the process's exit status
  steps,             \* steps[p]: the statements p has started, in order (history)
  failed_at,         \* failed_at[p]: the statement whose fault ended p ("" if none)
  opened,            \* set of <<p, file name, mode>>: every open() call made (history)
  before,            \* before[p]: the two files as they were when p started (history)
  overlapped,        \* overlapped[p]: p had user_token.json open while another invocation had
  last_closed        \* the invocation that wrote to and closed user_token.json last (0: none)

vars == <<credentials_json, user_token_json, pc, client_secrets, oauth_manager,
          ctor_args, scopes_arg, user_info, f, exit_status, steps, failed_at,
          opened, before, overlapped, last_closed>>

-----------------------------------------------------------------------------
(* Tokens *)

Punct(x) == <<"punct", x>>
\* Python tokens
PyStr(x) == <<"str", x>>
PyInt(x) == <<"int", x>>
PyBool(x) == <<"bool", x>>
PyNone == <<"none", "None">>
PyObject(x) == <<"obj", x>>
\* JSON tokens
JsStr(x) == <<"string", x>>
JsNum(x) == <<"number", x>>
JsLit(x) == <<"literal", x>>
\* a byte of a hole left by a write beyond the end of a file
Nul == <<"punct", "NUL">>

Kind(tok) == tok[1]
Text(tok) == tok[2]

-----------------------------------------------------------------------------
(* json.dump: Python value -> JSON text *)

\* True -> true, False -> false, None -> null
JsLiteralText(tok) ==
  IF Kind(tok) = "none" THEN "null"
  ELSE IF Text(tok) = "True" THEN "true" ELSE "false"

\* Token i of a Python value is a dict key iff a colon follows it.
IsKeyPos(py, i) == i < Len(py) /\ py[i + 1] = Punct(":")

\* The encoder with str() in place of the JSON literals: True is written "True".
DumpTok_Str(tok, isKey) ==
  CASE Kind(tok) = "int" /\ ~isKey -> JsNum(Text(tok))
    [] Kind(tok) \in {"str", "int", "bool", "none"} -> JsStr(Text(tok))
    [] tok = Punct("(") -> Punct("[")
    [] tok = Punct(")") -> Punct("]")
    [] OTHER -> tok

\* One token of the encoder's output. Keys of a dict are coerced to strings;
\* a tuple is written as an array.
DumpTok(tok, isKey) ==
  IF isKey
  THEN CASE Kind(tok) = "str" -> JsStr(Text(tok))
         [] Kind(tok) = "int" -> JsStr(Text(tok))
         [] Kind(tok) \in {"bool", "none"} -> JsStr(JsLiteralText(tok))
         [] OTHER -> tok
  ELSE CASE Kind(tok) = "str" -> JsStr(Text(tok))
         [] Kind(tok) = "int" -> JsNum(Text(tok))
         [] Kind(tok) \in {"bool", "none"} -> JsLit(JsLiteralText(tok))
         [] tok = Punct("(") -> Punct("[")
         [] tok = Punct(")") -> Punct("]")
         [] OTHER -> tok

\* A token the encoder raises TypeError on: an object it has no encoding for,
\* or a key that is not a str, int, bool or None.
NotSerializable(py, i) ==
  \/ Kind(py[i]) = "obj"
  \/ IsKeyPos(py, i) /\ Kind(py[i]) = "punct"

FirstBad(py) ==
  IF \E i \in 1..Len(py) : NotSerializable(py, i)
  THEN CHOOSE i \in 1..Len(py) :
         /\ NotSerializable(py, i)
         /\ \A j \in 1..(i - 1) : ~NotSerializable(py, j)
  ELSE Len(py) + 1

\* json.dump(obj, fp) writes the chunks of the encoding one by one; a TypeError
\* is raised after the chunks before the offending value were written.
Dumps(py) ==
  [ok   |-> FirstBad(py) > Len(py),
   toks |-> [i \in 1..(FirstBad(py) - 1) |-> DumpTok(py[i], IsKeyPos(py, i))]]

-----------------------------------------------------------------------------
(* json.load: JSON text -> Python value *)

IsScalar(tok) == Kind(tok) \in {"string", "number", "literal"}

RECURSIVE ParseValue(_, _), ParseElements(_, _), ParseMembers(_, _)
\* Each returns the index after the construct that starts at i, or 0 if the
\* text has no such construct there.
ParseValue(js, i) ==
  IF i > Len(js) THEN 0
  ELSE IF IsScalar(js[i]) THEN i + 1
  ELSE IF js[i] = Punct("[")
       THEN IF i + 1 <= Len(js) /\ js[i + 1] = Punct("]") THEN i + 2
            ELSE ParseElements(js, i + 1)
  ELSE IF js[i] = Punct("{")
       THEN IF i + 1 <= Len(js) /\ js[i + 1] = Punct("}") THEN i + 2
            ELSE ParseMembers(js, i + 1)
  ELSE 0

ParseElements(js, i) ==
  LET j == ParseValue(js, i) IN
  IF j = 0 \/ j > Len(js) THEN 0
  ELSE IF js[j] = Punct(",") THEN ParseElements(js, j + 1)
  ELSE IF js[j] = Punct("]") THEN j + 1
  ELSE 0

ParseMembers(js, i) ==
  IF i + 1 > Len(js) \/ Kind(js[i]) # "string" \/ js[i + 1] # Punct(":") THEN 0
  ELSE LET j == ParseValue(js, i + 2) IN
       IF j = 0 \/ j > Len(js) THEN 0
       ELSE IF js[j] = Punct(",") THEN ParseMembers(js, j + 1)
       ELSE IF js[j] = Punct("}") THEN j + 1
       ELSE 0

\* The text is exactly one JSON value.
IsValidJson(js) == ParseValue(js, 1) = Len(js) + 1

LoadTok(tok) ==
  CASE Kind(tok) = "string" -> PyStr(Text(tok))
    [] Kind(tok) = "number" -> PyInt(Text(tok))
    [] Kind(tok) = "literal" ->
         IF Text(tok) = "null" THEN PyNone
         ELSE PyBool(IF Text(tok) = "true" THEN "True" ELSE "False")
    [] OTHER -> tok

\* A decoder that accepts any text and returns what it could read.
Loads_Tolerant(js) ==
  [ok |-> TRUE, val |-> [i \in 1..Len(js) |-> LoadTok(js[i])]]

\* json.load(fp): raises JSONDecodeError (ok = FALSE) unless the text is valid.
Loads(js) ==
  [ok  |-> IsValidJson(js),
   val |-> IF IsValidJson(js) THEN [i \in 1..Len(js) |-> LoadTok(js[i])] ELSE <<>>]

-----------------------------------------------------------------------------
(* Files *)

Absent == [exists |-> FALSE, data |-> <<>>]
File(data) == [exists |-> TRUE, data |-> data]

\* open(name, mode) raises FileNotFoundError
OpenRaises(file, mode) == mode \in {"r", "r+"} /\ ~file.exists

\* The file after a successful open(name, mode): 'w' creates or truncates it.
OpenFile(file, mode) ==
  IF mode = "w" THEN File(<<>>)
  ELSE IF mode = "a" THEN File(file.data)
  ELSE file

\* The position of the new file object.
OpenPos(file, mode) == IF mode = "a" THEN Len(file.data) ELSE 0

\* Where a write lands: at the end of the file in append mode, else at the
\* file object's own position.
WritePos(file, pos, mode) == IF mode = "a" THEN Len(file.data) ELSE pos

\* The data of a file after chunk is written at offset pos.
WriteAt(data, pos, chunk) ==
  LET n == IF Len(data) > pos + Len(chunk) THEN Len(data) ELSE pos + Len(chunk) IN
  [i \in 1..n |->
     IF i > pos /\ i <= pos + Len(chunk) THEN chunk[i - pos]
     ELSE IF i <= Len(data) THEN data[i]
     ELSE Nul]

-----------------------------------------------------------------------------
(* The script's constants *)

\* credentials.json opened for writing
SecretsMode_Write == "w"
\* line 5: open('credentials.json', 'r')
SecretsMode == "r"
\* user_token.json opened for appending, and for updating in place
TokenMode_Append == "a"
TokenMode_Update == "r+"
\* line 19: open('user_token.json', 'w')
TokenMode == "w"
\* line 15: scopes=[Scopes.CALENDAR]
ScopeCalendar == "calendar"
\* the calendar scope with a scope the client secrets name
AuthScopes_More == <<ScopeCalendar, "drive">>
AuthScopes == <<ScopeCalendar>>
\* line 8: redirect_uri defaults to localhost:8080
DefaultRedirectUri == "http://localhost:8080"

\* a constructor call that passes a redirect URI of its own
CtorKwargs_Redirect(cs) ==
  [client_secrets_dict |-> cs, redirect_uri |-> "http://localhost:8000"]

\* lines 9-11: the keyword arguments of the constructor call
CtorKwargs(cs) == [client_secrets_dict |-> cs]

\* The manager the external constructor builds from its keyword arguments.
GoogleOAuthManager(kwargs) ==
  [client_secrets |-> kwargs.client_secrets_dict,
   redirect_uri   |-> IF "redirect_uri" \in DOMAIN kwargs
                      THEN kwargs.redirect_uri
                      ELSE DefaultRedirectUri]

NoManager == [client_secrets |-> <<>>, redirect_uri |-> ""]
NoFile == [open |-> FALSE, pos |-> 0, buf |-> <<>>, ok |-> TRUE]

-----------------------------------------------------------------------------
(* Control flow: the module body is one straight line. *)

\* user_token.json opened before the authenticate call
Program_OpenFirst ==
  <<"load", "construct", "open", "authenticate", "dump", "flush", "done">>

Program ==
  <<"load", "construct", "authenticate", "open", "dump", "flush", "done">>

IndexOf(at) == CHOOSE i \in 1..Len(Program) : Program[i] = at

\* A fault is swallowed (try: ... except: pass) and the script goes on.
NextPc_Swallow(at, ok) == Program[IndexOf(at) + 1]

\* A failed authenticate call is made again.
NextPc_Retry(at, ok) ==
  IF ok THEN Program[IndexOf(at) + 1]
  ELSE IF at = "authenticate" THEN "authenticate" ELSE "fault"

\* Where control goes after the statement at `at`: to the next statement, or,
\* since no exception is caught, out of the script.
NextPc(at, ok) == IF ok THEN Program[IndexOf(at) + 1] ELSE "fault"

\* The exit status of the interpreter: 0 at the end of the script, 1 after an
\* unhandled exception.
ExitCode(pcv) == IF pcv = "done" THEN 0 ELSE IF pcv = "fault" THEN 1 ELSE -1

Terminated(p) == pc[p] \in {"done", "fault"}

\* p is inside the with block of lines 19-20.
HasOpen(p) == f[p].open

\* Moves p past the statement `at`.
Goto(p, at, ok) ==
  /\ pc' = [pc EXCEPT ![p] = NextPc(at, ok)]
  /\ exit_status' = [exit_status EXCEPT ![p] = ExitCode(NextPc(at, ok))]

-----------------------------------------------------------------------------
(* Inputs *)

\* Contents of credentials.json
SecretsPlain ==
  <<Punct("{"), JsStr("client_id"), Punct(":"), JsStr("app"), Punct("}")>>
SecretsWithScopes ==
  <<Punct("{"), JsStr("client_id"), Punct(":"), JsStr("app"), Punct(","),
    JsStr("scopes"), Punct(":"), Punct("["), JsStr("drive"), Punct("]"), Punct("}")>>
SecretsBroken ==
  <<Punct("{"), JsStr("client_id"), Punct(":")>>

SecretsFiles == {Absent, File(SecretsPlain), File(SecretsWithScopes), File(SecretsBroken)}

\* A token document left by an earlier use of the script
OldToken ==
  <<Punct("{"), JsStr("token"), Punct(":"), JsStr("old"), Punct(","),
    JsStr("valid"), Punct(":"), JsLit("false"), Punct("}")>>

TokenFiles == {Absent, File(OldToken)}

\* Values the authenticate call may return
CredShort ==
  <<Punct("{"), PyStr("token"), Punct(":"), PyStr("x"), Punct("}")>>
CredLong ==
  <<Punct("{"), PyStr("valid"), Punct(":"), PyBool("True"), Punct(","),
    PyStr("expiry"), Punct(":"), PyNone, Punct("}")>>
\* an int for a key and a tuple for a value
CredTuple ==
  <<Punct("{"), PyInt("1"), Punct(":"), Punct("("), Punct(")"), Punct("}")>>
\* an expiry kept as a datetime object
CredDatetime ==
  <<Punct("{"), PyStr("expiry"), Punct(":"), PyObject("datetime"), Punct("}")>>

AuthResults == {CredShort, CredLong, CredTuple, CredDatetime}

-----------------------------------------------------------------------------
(* Initial state: no invocation has started. *)

Init ==
  /\ credentials_json \in SecretsFiles
  /\ user_token_json \in TokenFiles
  /\ pc = [p \in Procs |-> "idle"]
  /\ client_secrets = [p \in Procs |-> <<>>]
  /\ oauth_manager = [p \in Procs |-> NoManager]
  /\ ctor_args = [p \in Procs |-> {}]
  /\ scopes_arg = [p \in Procs |-> <<>>]
  /\ user_info = [p \in Procs |-> <<>>]
  /\ f = [p \in Procs |-> NoFile]
  /\ exit_status = [p \in Procs |-> -1]
  /\ steps = [p \in Procs |-> <<>>]
  /\ failed_at = [p \in Procs |-> ""]
  /\ opened = {}
  /\ before = [p \in Procs |-> [secrets |-> Absent, token |-> Absent]]
  /\ overlapped = [p \in Procs |-> FALSE]
  /\ last_closed = 0

-----------------------------------------------------------------------------
(* Actions *)

\* The script is started (python get_calendar_details.py).
Start(p) ==
  /\ pc[p] = "idle"
  /\ \A q \in Procs : q < p => pc[q] # "idle"
  /\ pc' = [pc EXCEPT ![p] = "load"]
  /\ before' = [before EXCEPT ![p] = [secrets |-> credentials_json,
                                      token |-> user_token_json]]
  /\ UNCHANGED <<credentials_json, user_token_json, client_secrets, oauth_manager,
                 ctor_args, scopes_arg, user_info, f, exit_status, steps,
                 failed_at, opened, overlapped, last_closed>>

\* The script is started after every earlier invocation has ended.
StartAfter(p) ==
  /\ \A q \in Procs : q < p => Terminated(q)
  /\ Start(p)

\* lines 5-6: with open('credentials.json', 'r') as f: client_secrets = json.load(f)
LoadSecrets(p) ==
  /\ pc[p] = "load"
  /\ steps' = [steps EXCEPT ![p] = Append(@, "load")]
  /\ opened' = opened \cup {<<p, "credentials.json", SecretsMode>>}
  /\ IF OpenRaises(credentials_json, SecretsMode)
     THEN /\ Goto(p, "load", FALSE)
          /\ failed_at' = [failed_at EXCEPT ![p] = "load"]
          /\ UNCHANGED <<credentials_json, client_secrets>>
     ELSE LET file == OpenFile(credentials_json, SecretsMode)
              r == Loads(file.data)
          IN /\ credentials_json' = file
             /\ Goto(p, "load", r.ok)
             /\ failed_at' = [failed_at EXCEPT ![p] = IF r.ok THEN "" ELSE "load"]
             /\ client_secrets' = [client_secrets EXCEPT ![p] = r.val]
  /\ UNCHANGED <<user_token_json, oauth_manager, ctor_args, scopes_arg, user_info,
                 f, before, overlapped, last_closed>>

\* lines 9-11: oauth_manager = GoogleOAuthManager(client_secrets_dict=client_secrets)
Construct(p) ==
  /\ pc[p] = "construct"
  /\ steps' = [steps EXCEPT ![p] = Append(@, "construct")]
  /\ LET kwargs == CtorKwargs(client_secrets[p]) IN
       /\ ctor_args' = [ctor_args EXCEPT ![p] = DOMAIN kwargs]
       /\ oauth_manager' = [oauth_manager EXCEPT ![p] = GoogleOAuthManager(kwargs)]
  /\ Goto(p, "construct", TRUE)
  /\ UNCHANGED <<credentials_json, user_token_json, client_secrets, scopes_arg,
                 user_info, f, failed_at, opened, before, overlapped, last_closed>>

\* lines 9-11: the constructor raises (it rejects the client secrets)
ConstructFault(p) ==
  /\ pc[p] = "construct"
  /\ steps' = [steps EXCEPT ![p] = Append(@, "construct")]
  /\ ctor_args' = [ctor_args EXCEPT ![p] = DOMAIN CtorKwargs(client_secrets[p])]
  /\ Goto(p, "construct", FALSE)
  /\ failed_at' = [failed_at EXCEPT ![p] = "construct"]
  /\ UNCHANGED <<credentials_json, user_token_json, client_secrets, oauth_manager,
                 scopes_arg, user_info, f, opened, before, overlapped, last_closed>>

\* lines 14-16: user_info = oauth_manager.authenticate_via_local_server(
\* scopes=[Scopes.CALENDAR]): the call blocks while the browser flow runs, and
\* returns a credential
Authenticate(p) ==
  /\ pc[p] = "authenticate"
  /\ steps' = [steps EXCEPT ![p] = Append(@, "authenticate")]
  /\ scopes_arg' = [scopes_arg EXCEPT ![p] = AuthScopes]
  /\ \E cred \in AuthResults : user_info' = [user_info EXCEPT ![p] = cred]
  /\ Goto(p, "authenticate", TRUE)
  /\ UNCHANGED <<credentials_json, user_token_json, client_secrets, oauth_manager,
                 ctor_args, f, failed_at, opened, before, overlapped, last_closed>>

\* lines 14-16: the call raises (consent denied, network failure, port in use, ...)
AuthFault(p) ==
  /\ pc[p] = "authenticate"
  /\ steps' = [steps EXCEPT ![p] = Append(@, "authenticate")]
  /\ scopes_arg' = [scopes_arg EXCEPT ![p] = AuthScopes]
  /\ Goto(p, "authenticate", FALSE)
  /\ failed_at' = [failed_at EXCEPT ![p] = "authenticate"]
  /\ UNCHANGED <<credentials_json, user_token_json, client_secrets, oauth_manager,
                 ctor_args, user_info, f, opened, before, overlapped, last_closed>>

\* line 19: open('user_token.json', 'w')
OpenToken(p) ==
  /\ pc[p] = "open"
  /\ ~OpenRaises(user_token_json, TokenMode)
  /\ steps' = [steps EXCEPT ![p] = Append(@, "write")]
  /\ opened' = opened \cup {<<p, "user_token.json", TokenMode>>}
  /\ user_token_json' = OpenFile(user_token_json, TokenMode)
  /\ f' = [f EXCEPT ![p] = [open |-> TRUE,
                            pos |-> OpenPos(user_token_json, TokenMode),
                            buf |-> <<>>, ok |-> TRUE]]
  /\ overlapped' = [q \in Procs |->
                      IF q = p THEN \E r \in Procs \ {p} : HasOpen(r)
                      ELSE overlapped[q] \/ HasOpen(q)]
  /\ Goto(p, "open", TRUE)
  /\ UNCHANGED <<credentials_json, client_secrets, oauth_manager, ctor_args,
                 scopes_arg, user_info, failed_at, before, last_closed>>

\* line 19: open raises (no permission, no such directory, ...); nothing is opened
OpenTokenFault(p) ==
  /\ pc[p] = "open"
  /\ steps' = [steps EXCEPT ![p] = Append(@, "write")]
  /\ Goto(p, "open", FALSE)
  /\ failed_at' = [failed_at EXCEPT ![p] = "write"]
  /\ UNCHANGED <<credentials_json, user_token_json, client_secrets, oauth_manager,
                 ctor_args, scopes_arg, user_info, f, opened, before, overlapped,
                 last_closed>>

\* line 20: json.dump(user_info, f) hands the chunks of the encoding to f
Dump(p) ==
  /\ pc[p] = "dump"
  /\ LET d == Dumps(user_info[p]) IN
       f' = [f EXCEPT ![p].buf = d.toks, ![p].ok = d.ok]
  /\ Goto(p, "dump", TRUE)
  /\ UNCHANGED <<credentials_json, user_token_json, client_secrets, oauth_manager,
                 ctor_args, scopes_arg, user_info, steps, failed_at, opened, before,
                 overlapped, last_closed>>

\* The file after f[p] has written its first n buffered tokens at its position.
Written(p, n) ==
  File(WriteAt(user_token_json.data,
               WritePos(user_token_json, f[p].pos, TokenMode),
               SubSeq(f[p].buf, 1, n)))

\* line 20: while json.dump runs, f's buffer fills up and is written out at
\* f's own position
Flush(p) ==
  /\ pc[p] = "flush"
  /\ Len(f[p].buf) > BufSize
  /\ user_token_json' = Written(p, BufSize)
  /\ f' = [f EXCEPT ![p].pos = @ + BufSize,
                     ![p].buf = SubSeq(@, BufSize + 1, Len(@))]
  /\ UNCHANGED <<credentials_json, pc, client_secrets, oauth_manager, ctor_args,
                 scopes_arg, user_info, exit_status, steps, failed_at, opened,
                 before, overlapped, last_closed>>

\* line 20: a write fails (disk full, I/O error); what was buffered is lost
WriteFault(p) ==
  /\ pc[p] = "flush"
  /\ f[p].buf # <<>>
  /\ f' = [f EXCEPT ![p].open = FALSE, ![p].buf = <<>>, ![p].ok = FALSE]
  /\ Goto(p, "flush", FALSE)
  /\ failed_at' = [failed_at EXCEPT ![p] = "write"]
  /\ last_closed' = p
  /\ UNCHANGED <<credentials_json, user_token_json, client_secrets, oauth_manager,
                 ctor_args, scopes_arg, user_info, steps, opened, before,
                 overlapped>>

\* lines 19-20: the with block is left: f writes out what is left in its
\* buffer and is closed, and a TypeError raised by json.dump propagates
Close(p) ==
  /\ pc[p] = "flush"
  /\ Len(f[p].buf) <= BufSize
  /\ user_token_json' = Written(p, Len(f[p].buf))
  /\ f' = [f EXCEPT ![p].open = FALSE, ![p].pos = @ + Len(f[p].buf), ![p].buf = <<>>]
  /\ Goto(p, "flush", f[p].ok)
  /\ failed_at' = [failed_at EXCEPT ![p] = IF f[p].ok THEN "" ELSE "write"]
  /\ last_closed' = p
  /\ UNCHANGED <<credentials_json, client_secrets, oauth_manager, ctor_args,
                 scopes_arg, user_info, steps, opened, before, overlapped>>

Step(p) ==
  \/ LoadSecrets(p)
  \/ Construct(p)
  \/ ConstructFault(p)
  \/ Authenticate(p)
  \/ AuthFault(p)
  \/ OpenToken(p)
  \/ OpenTokenFault(p)
  \/ Dump(p)
  \/ Flush(p)
  \/ WriteFault(p)
  \/ Close(p)

\* Invocations in succession: one runs at a time.
Next == \E p \in Procs : StartAfter(p) \/ Step(p)

Spec == Init /\ [][Next]_vars

\* Invocations that may run at the same time.
NextConc == \E p \in Procs : Start(p) \/ Step(p)

SpecConc == Init /\ [][NextConc]_vars

-----------------------------------------------------------------------------
(* Properties *)

Started(p) == pc[p] # "idle"

\* p is the most recent invocation: what the files hold now is what they hold
\* after p, as far as p has come.
Latest(p) == Started(p) /\ \A q \in Procs : q > p => ~Started(q)

HasOpened(p, name) == \E o \in opened : o[1] = p /\ o[2] = name

\* The whole JSON text of a credential.
TokenText(p) == Dumps(user_info[p]).toks

IsPrefix(s, t) == Len(s) <= Len(t) /\ s = SubSeq(t, 1, Len(s))

\* A Python value that JSON has a form for: no tuple, and every dict key a str.
JsonNative(py) ==
  \A i \in 1..Len(py) :
    /\ py[i] \notin {Punct("("), Punct(")")}
    /\ Kind(py[i]) # "obj"
    /\ IsKeyPos(py, i) => Kind(py[i]) = "str"

\* C1: a run whose authenticate call raised never opened user_token.json, and
\* after it the file exists or not, and holds, what it did before the run.
C1_AuthFaultLeavesToken ==
  \A p \in Procs :
    failed_at[p] = "authenticate" =>
      /\ ~HasOpened(p, "user_token.json")
      /\ f[p] = NoFile
      /\ Latest(p) => user_token_json = before[p].token

\* C1 witness: the second run's authenticate call raised after a first run
\* had written a token.
C1_Witness ==
  \E p, q \in Procs :
    /\ q < p /\ pc[q] = "done"
    /\ pc[p] = "fault" /\ failed_at[p] = "authenticate"
    /\ before[p].token.exists

\* C2: with credentials.json absent or not JSON, a run never gets past the load:
\* no manager is constructed, authenticate is not called, and the run ends
\* with a non-zero status at the load.
C2_BadSecretsStopBeforeAuth ==
  \A p \in Procs :
    Started(p) /\ before[p].secrets \in {Absent, File(SecretsBroken)} =>
      /\ pc[p] \in {"load", "fault"}
      /\ ctor_args[p] = {} /\ oauth_manager[p] = NoManager
      /\ scopes_arg[p] = <<>>
      /\ \A i \in 1..Len(steps[p]) : steps[p][i] = "load"
      /\ pc[p] = "fault" => failed_at[p] = "load" /\ exit_status[p] > 0

\* C2 witness: a run has ended at the load on a credentials.json that does
\* not parse.
C2_Witness ==
  \E p \in Procs :
    /\ pc[p] = "fault" /\ failed_at[p] = "load"
    /\ before[p].secrets = File(SecretsBroken)

\* C3 as stated: after a successful run, parsing user_token.json gives back
\* user_info exactly, whatever the authenticate call returned.
C3_RoundTripAny ==
  \A p \in Procs :
    Latest(p) /\ pc[p] = "done" =>
      /\ user_token_json.exists
      /\ Loads(user_token_json.data).ok
      /\ Loads(user_token_json.data).val = user_info[p]

\* C3 amended: after a successful run, the file holds the JSON text of
\* user_info, and parsing it gives back user_info exactly if user_info is
\* built of dicts with string keys, lists, strings, numbers, booleans and None.
C3_RoundTripJsonNative ==
  \A p \in Procs :
    Latest(p) /\ pc[p] = "done" =>
      /\ user_token_json.exists
      /\ Loads(user_token_json.data).ok
      /\ JsonNative(user_info[p]) => Loads(user_token_json.data).val = user_info[p]

\* C3 witness: a successful run has written a credential with a boolean and a
\* None in it.
C3_Witness ==
  \E p \in Procs :
    /\ Latest(p) /\ pc[p] = "done" /\ user_info[p] = CredLong
    /\ Loads(user_token_json.data).val = CredLong

\* C4: after two successful runs in succession the file holds the second
\* run's credential and nothing else.
C4_SecondRunReplaces ==
  \A p, q \in Procs :
    q = p + 1 /\ pc[p] = "done" /\ pc[q] = "done" /\ Latest(q) =>
      user_token_json = File(TokenText(q))

\* C4 witness: a long credential was written, then a short one.
C4_Witness ==
  \E p, q \in Procs :
    /\ q = p + 1 /\ pc[p] = "done" /\ pc[q] = "done" /\ Latest(q)
    /\ user_info[p] = CredLong /\ user_info[q] = CredShort

\* C5: whenever authenticate has been called, it was given exactly the
\* calendar scope, whatever the client secrets hold.
C5_OnlyCalendarScope ==
  \A p \in Procs :
    "authenticate" \in {steps[p][i] : i \in 1..Len(steps[p])} =>
      Len(scopes_arg[p]) = 1 /\ scopes_arg[p][1] = ScopeCalendar

\* C5 witness: authenticate was called with client secrets that name the
\* drive scope.
C5_Witness ==
  \E p \in Procs :
    /\ Terminated(p) /\ Len(scopes_arg[p]) = 1
    /\ \E i \in 1..Len(client_secrets[p]) : client_secrets[p][i] = PyStr("drive")

C7_SecretsNeverMutated ==
  /\ \A p \in Procs : Started(p) => credentials_json = before[p].secrets
  /\ \A o \in opened : o[2] = "credentials.json" => o[3] = "r"

\* C7 witness: one run has succeeded and another has faulted after reading
\* credentials.json.
C7_Witness ==
  \E p, q \in Procs :
    /\ pc[p] = "done" /\ pc[q] = "fault" /\ failed_at[q] # "load"
    /\ <<p, "credentials.json", "r">> \in opened
    /\ <<q, "credentials.json", "r">> \in opened

\* C8 as stated: when two invocations have both succeeded, the file holds the
\* whole credential of the one that closed it last, and nothing else.
C8_LastWriterWins ==
  \A p, q \in Procs :
    p # q /\ pc[p] = "done" /\ pc[q] = "done" /\ last_closed = p =>
      user_token_json = File(TokenText(p))

\* C8 amended: once no invocation has the file open, the file holds the
\* whole credential of the invocation that closed it last, and nothing else,
\* if no other invocation had the file open while this one had.
C8_LastWriterWinsIfNoOverlap ==
  \A p \in Procs :
    /\ pc[p] = "done" /\ last_closed = p
    /\ \A q \in Procs : ~HasOpen(q)
    /\ ~overlapped[p]
    => user_token_json = File(TokenText(p))

\* C8 witness: invocation 2 started while invocation 1 was running, wrote a
\* long credential and ended before invocation 1 opened the file; invocation 1
\* then wrote a short one.
C8_Witness ==
  /\ pc[1] = "done" /\ pc[2] = "done" /\ last_closed = 1
  /\ ~overlapped[1] /\ ~overlapped[2]
  /\ before[2].token = before[1].token
  /\ user_info[1] = CredShort /\ user_info[2] = CredLong

\* C9: a run starts load, construct, authenticate, write in this order, each
\* at most once and only after the ones before it succeeded; it ends with
\* status 0 after all of them, or with a non-zero status at the first one
\* that failed.
Statements == <<"load", "construct", "authenticate", "write">>

C9_SingleLinearPass ==
  \A p \in Procs :
    /\ IsPrefix(steps[p], Statements)
    /\ pc[p] = "done" =>
         steps[p] = Statements /\ exit_status[p] = 0 /\ failed_at[p] = ""
    /\ pc[p] = "fault" =>
         /\ exit_status[p] > 0
         /\ steps[p] # <<>>
         /\ failed_at[p] = steps[p][Len(steps[p])]
    /\ ~Terminated(p) => exit_status[p] = -1 /\ failed_at[p] = ""

\* C9 witness: one run has ended with status 0 and one at a failed
\* authenticate call.
C9_Witness ==
  \E p, q \in Procs :
    /\ pc[p] = "done" /\ exit_status[p] = 0
    /\ pc[q] = "fault" /\ failed_at[q] = "authenticate"
    /\ steps[q] = <<"load", "construct", "authenticate">>

\* C10 as stated: at the end of a run the file holds what it held before the
\* run, or the whole JSON text of the run's credential.
C10_AllOrNothing ==
  \A p \in Procs :
    Latest(p) /\ Terminated(p) =>
      \/ user_token_json = before[p].token
      \/ Dumps(user_info[p]).ok /\ user_token_json = File(TokenText(p))

\* C10 amended: at the end of a run the file holds what it held before the
\* run if the run faulted before it opened the file; the whole JSON text of
\* the credential if the run succeeded; and otherwise a cut text: a prefix
\* of the JSON text, possibly empty, that is no JSON document.
C10_AllOrPrefix ==
  \A p \in Procs :
    Latest(p) /\ Terminated(p) =>
      IF pc[p] = "done"
      THEN Dumps(user_info[p]).ok /\ user_token_json = File(TokenText(p))
      ELSE IF ~HasOpened(p, "user_token.json")
      THEN user_token_json = before[p].token
      ELSE /\ failed_at[p] = "write"
           /\ user_token_json.exists
           /\ IsPrefix(user_token_json.data, TokenText(p))
           /\ ~IsValidJson(user_token_json.data)

\* C10 witness: a run has faulted in json.dump and left a cut text where a
\* token document was.
C10_Witness ==
  \E p \in Procs :
    /\ Latest(p) /\ pc[p] = "fault" /\ failed_at[p] = "write"
    /\ before[p].token = File(OldToken)
    /\ user_token_json.exists
    /\ user_token_json.data # <<>>
    /\ ~IsValidJson(user_token_json.data)

=============================================================================
